---------------------------- MODULE Spec2Model ----------------------------
(***************************************************************************)
(* plist.wasm: the JavaScript binding (src/src/plist.mjs) over the C       *)
(* wrapper (src/src/plist_wrapper.c) around the libplist engine.           *)
(*                                                                         *)
(* The binding and the wrapper are modelled from their source.  libplist   *)
(* itself is a git submodule whose code is not part of the tree; the       *)
(* engine's entry points (plist_from_memory, plist_to_xml, plist_to_bin,   *)
(* plist_to_json, plist_to_openstep) are modelled from the design          *)
(* document, sections 3, 4 and 7.                                          *)
(*                                                                         *)
(* Documents are sequences of lexical tokens, not bytes: a token stands    *)
(* for the bytes of one lexeme.  Value trees are records.  Every JS call   *)
(* is one atomic action (JavaScript runs a synchronous call to its end);   *)
(* only init() has an await point and is split in two.                     *)
(***************************************************************************)
EXTENDS Integers, Sequences, FiniteSets, TLC

(***************************************************************************)
(* Program constants                                                       *)
(***************************************************************************)
FormatNONE == 0
FormatXML == 1
FormatBINARY == 2
FormatJSON == 3
FormatOPENSTEP == 4

ErrSUCCESS == 0
ErrINVALID_ARG == -1
ErrFORMAT == -2
ErrPARSE == -3
ErrNO_MEM == -4
ErrCIRCULAR_REF == -6

(***************************************************************************)
(* Value tree (design document, section 3).  Scalars carry their payload   *)
(* as text in v; an array has its elements in kids; a dictionary has its   *)
(* keys in keys and the matching values in kids, in insertion order.       *)
(***************************************************************************)
Node(t, v, keys, kids) == [t |-> t, v |-> v, keys |-> keys, kids |-> kids]
Scalar(t, v) == Node(t, v, <<>>, <<>>)
NullV == Scalar("null", "")
BoolV(b) == Scalar("boolean", b)
IntV(s) == Scalar("integer", s)
RealV(s) == Scalar("real", s)
StrV(s) == Scalar("string", s)
DateV(s) == Scalar("date", s)
DataV(s) == Scalar("data", s)
ArrV(kids) == Node("array", "", <<>>, kids)
DictV(keys, kids) == Node("dict", "", keys, kids)

\* The null plist_t (a NULL handle has no tree behind it)
NoTree == Scalar("none", "")

RECURSIVE Types(_)
Types(n) == {n.t} \cup UNION {Types(n.kids[i]) : i \in 1..Len(n.kids)}

(***************************************************************************)
(* Tokens.  k is the lexeme class, v its text, refs the object references  *)
(* of a binary object (or the trailer's <<object count, top index>>).      *)
(***************************************************************************)
Tok(k, v) == [k |-> k, v |-> v, refs |-> <<>>]
BTok(k, v, refs) == [k |-> k, v |-> v, refs |-> refs]
Ws == Tok("ws", " ")
P(c) == Tok("punct", c)

RECURSIVE Flat(_)
Flat(ss) == IF ss = <<>> THEN <<>> ELSE Head(ss) \o Flat(Tail(ss))

RECURSIVE SkipWs(_)
SkipWs(ts) == IF ts # <<>> /\ Head(ts).k = "ws" THEN SkipWs(Tail(ts)) ELSE ts

\* Text universe of the model: which texts are integer or real literals
IntTexts == {"42", "7"}
RealTexts == {"1.5"}
\* Data payloads with their base64 and hex spellings
Base64Of(raw) == CASE raw = "hi" -> "aGk=" [] OTHER -> "?"
RawOfBase64(b) == CASE b = "aGk=" -> "hi" [] OTHER -> "?"
HexOf(raw) == CASE raw = "hi" -> "6869" [] OTHER -> "?"
RawOfHex(h) == CASE h = "6869" -> "hi" [] OTHER -> "?"
\* Strings OpenStep must quote (anything but alphanumerics and a few signs)
NeedsQuote(s) == s \in {"", "a b"}

(***************************************************************************)
(* Encoders of the engine (design document 4.2 to 4.5).  Each returns the  *)
(* engine's error code and, on success, the document it wrote.             *)
(***************************************************************************)
EncOk(toks) == [error |-> ErrSUCCESS, data |-> toks]
\* an encoder that reports every failure as a Format error
EncErr_AsFormat(code) == [error |-> ErrFORMAT, data |-> <<>>]
EncErr(code) == [error |-> code, data |-> <<>>]

\* ---- XML (4.3): declaration, DOCTYPE, <plist>, the tree, </plist>
RECURSIVE node_to_xml(_)
node_to_xml(n) ==
    CASE n.t = "boolean" -> <<Tok("empty", n.v)>>
      [] n.t = "data" ->
            <<Tok("open", "data"), Tok("text", Base64Of(n.v)), Tok("close", "data")>>
      [] n.t \in {"integer", "real", "string", "date"} ->
            <<Tok("open", n.t), Tok("text", n.v), Tok("close", n.t)>>
      [] n.t = "array" ->
            <<Tok("open", "array")>>
            \o Flat([i \in 1..Len(n.kids) |-> node_to_xml(n.kids[i])])
            \o <<Tok("close", "array")>>
      [] n.t = "dict" ->
            <<Tok("open", "dict")>>
            \o Flat([i \in 1..Len(n.kids) |->
                     <<Tok("open", "key"), Tok("text", n.keys[i]), Tok("close", "key")>>
                     \o node_to_xml(n.kids[i])])
            \o <<Tok("close", "dict")>>
      [] OTHER -> <<>>

\* XML has an element for every variant but Null
XmlCan(n) == Types(n) \cap {"null", "none"} = {}

plist_to_xml(tree) ==
    IF tree = NoTree THEN EncErr(ErrINVALID_ARG)
    ELSE IF ~XmlCan(tree) THEN EncErr(ErrFORMAT)
    ELSE EncOk(<<Tok("decl", "<?xml"), Ws, Tok("doctype", "<!DOCTYPE plist"), Ws,
                 Tok("open", "plist")>>
               \o node_to_xml(tree) \o <<Tok("close", "plist")>>)

\* ---- JSON (4.4).  policy is the engine's fixed convention for Data and
\* Date, which JSON has no literal for: "error" (Format error) or "coerce"
\* (base64 / ISO-8601 string).
Sep(ts, prettify) == IF prettify THEN ts \o <<Ws>> ELSE ts

RECURSIVE node_to_json(_, _)
node_to_json(n, prettify) ==
    CASE n.t = "null" -> <<Tok("bare", "null")>>
      [] n.t \in {"boolean", "integer", "real"} -> <<Tok("bare", n.v)>>
      [] n.t \in {"string", "date"} -> <<Tok("qstr", n.v)>>
      [] n.t = "data" -> <<Tok("qstr", Base64Of(n.v))>>
      [] n.t = "array" ->
            Sep(<<P("[")>>, prettify)
            \o Flat([i \in 1..Len(n.kids) |->
                     (IF i > 1 THEN Sep(<<P(",")>>, prettify) ELSE <<>>)
                     \o node_to_json(n.kids[i], prettify)])
            \o <<P("]")>>
      [] n.t = "dict" ->
            Sep(<<P("{")>>, prettify)
            \o Flat([i \in 1..Len(n.kids) |->
                     (IF i > 1 THEN Sep(<<P(",")>>, prettify) ELSE <<>>)
                     \o Sep(<<Tok("qstr", n.keys[i]), P(":")>>, prettify)
                     \o node_to_json(n.kids[i], prettify)])
            \o <<P("}")>>
      [] OTHER -> <<>>

JsonCan(n, policy) ==
    /\ "none" \notin Types(n)
    /\ policy = "error" => Types(n) \cap {"data", "date"} = {}

plist_to_json(tree, prettify, policy) ==
    IF tree = NoTree THEN EncErr(ErrINVALID_ARG)
    ELSE IF ~JsonCan(tree, policy) THEN EncErr(ErrFORMAT)
    ELSE EncOk(node_to_json(tree, prettify))

\* ---- OpenStep (4.5): no Boolean, Date or Null; numbers render as text
RECURSIVE node_to_openstep(_, _)
node_to_openstep(n, prettify) ==
    CASE n.t \in {"integer", "real"} -> <<Tok("bare", n.v)>>
      [] n.t = "string" ->
            <<Tok(IF NeedsQuote(n.v) THEN "qstr" ELSE "bare", n.v)>>
      [] n.t = "data" -> <<Tok("hex", HexOf(n.v))>>
      [] n.t = "array" ->
            Sep(<<P("(")>>, prettify)
            \o Flat([i \in 1..Len(n.kids) |->
                     (IF i > 1 THEN Sep(<<P(",")>>, prettify) ELSE <<>>)
                     \o node_to_openstep(n.kids[i], prettify)])
            \o <<P(")")>>
      [] n.t = "dict" ->
            Sep(<<P("{")>>, prettify)
            \o Flat([i \in 1..Len(n.kids) |->
                     <<Tok(IF NeedsQuote(n.keys[i]) THEN "qstr" ELSE "bare", n.keys[i])>>
                     \o Sep(<<P("=")>>, prettify)
                     \o node_to_openstep(n.kids[i], prettify)
                     \o Sep(<<P(";")>>, prettify)])
            \o <<P("}")>>
      [] OTHER -> <<>>

OpenStepCan(n) == Types(n) \cap {"boolean", "date", "null", "none"} = {}

plist_to_openstep(tree, prettify) ==
    IF tree = NoTree THEN EncErr(ErrINVALID_ARG)
    ELSE IF ~OpenStepCan(tree) THEN EncErr(ErrFORMAT)
    ELSE EncOk(node_to_openstep(tree, prettify))

\* ---- Binary (4.2): header, one object per tree node and per dictionary
\* key, trailer with the object count and the top object's index.
RECURSIVE BinSize(_), BinSizes(_)
BinSizes(ks) == IF ks = <<>> THEN 0 ELSE BinSize(Head(ks)) + BinSizes(Tail(ks))
BinSize(n) == 1 + Len(n.keys) + BinSizes(n.kids)

RECURSIVE node_to_bin(_, _)
node_to_bin(n, base) ==
    LET m == Len(n.keys)
        keyIdx == [i \in 1..m |-> base + i]
        kidIdx == [i \in 1..Len(n.kids) |->
                     base + 1 + m + BinSizes(SubSeq(n.kids, 1, i - 1))]
        self == IF n.t \in {"array", "dict"}
                THEN BTok(n.t, "", keyIdx \o kidIdx)
                ELSE BTok(n.t, n.v, <<>>)
    IN  <<self>>
        \o [i \in 1..m |-> BTok("string", n.keys[i], <<>>)]
        \o Flat([i \in 1..Len(n.kids) |-> node_to_bin(n.kids[i], kidIdx[i])])

plist_to_bin(tree) ==
    IF tree = NoTree THEN EncErr(ErrINVALID_ARG)
    ELSE EncOk(<<Tok("magic", "bplist"), Tok("version", "00")>>
               \o node_to_bin(tree, 0)
               \o <<BTok("trailer", "", <<BinSize(tree), 0>>)>>)

(***************************************************************************)
(* Decoders of the engine (design document 4.1 to 4.5).                    *)
(***************************************************************************)
PFail == [ok |-> FALSE, node |-> NoTree, rest |-> <<>>]
POk(n, r) == [ok |-> TRUE, node |-> n, rest |-> r]
After(s, n) == SubSeq(s, n + 1, Len(s))

\* Duplicate dictionary keys: the last value wins, at the first position
DictPut(d, key, kid) ==
    IF \E i \in 1..Len(d.keys) : d.keys[i] = key
    THEN DictV(d.keys, [i \in 1..Len(d.kids) |->
                          IF d.keys[i] = key THEN kid ELSE d.kids[i]])
    ELSE DictV(Append(d.keys, key), Append(d.kids, kid))

XmlTextOk(tag, text) ==
    CASE tag = "integer" -> text \in IntTexts
      [] tag = "real" -> text \in IntTexts \cup RealTexts
      [] tag = "data" -> RawOfBase64(text) # "?"
      [] OTHER -> TRUE

RECURSIVE xml_value(_), xml_array(_, _), xml_dict(_, _)
xml_value(ts) ==
    LET s == SkipWs(ts) IN
    IF s = <<>> THEN PFail
    ELSE LET h == Head(s) IN
         CASE h.k = "empty" /\ h.v \in {"true", "false"} -> POk(BoolV(h.v), Tail(s))
           [] h.k = "open" /\ h.v \in {"integer", "real", "string", "date", "data"} ->
                 IF /\ Len(s) >= 3
                    /\ s[2].k = "text"
                    /\ s[3] = Tok("close", h.v)
                    /\ XmlTextOk(h.v, s[2].v)
                 THEN POk(Scalar(h.v, IF h.v = "data" THEN RawOfBase64(s[2].v) ELSE s[2].v),
                          After(s, 3))
                 ELSE PFail
           [] h = Tok("open", "array") -> xml_array(Tail(s), <<>>)
           [] h = Tok("open", "dict") -> xml_dict(Tail(s), DictV(<<>>, <<>>))
           [] OTHER -> PFail
xml_array(ts, acc) ==
    LET s == SkipWs(ts) IN
    IF s = <<>> THEN PFail
    ELSE IF Head(s) = Tok("close", "array") THEN POk(ArrV(acc), Tail(s))
    ELSE LET r == xml_value(s) IN
         IF r.ok THEN xml_array(r.rest, Append(acc, r.node)) ELSE PFail
xml_dict(ts, d) ==
    LET s == SkipWs(ts) IN
    IF s = <<>> THEN PFail
    ELSE IF Head(s) = Tok("close", "dict") THEN POk(d, Tail(s))
    ELSE IF /\ Len(s) >= 3
            /\ s[1] = Tok("open", "key")
            /\ s[2].k = "text"
            /\ s[3] = Tok("close", "key")
         THEN LET r == xml_value(After(s, 3)) IN
              IF r.ok THEN xml_dict(r.rest, DictPut(d, s[2].v, r.node)) ELSE PFail
         ELSE PFail

\* Optional declaration and DOCTYPE, then one <plist> envelope and nothing else
XmlProlog(ts) ==
    LET a == SkipWs(ts)
        b == IF a # <<>> /\ Head(a).k = "decl" THEN SkipWs(Tail(a)) ELSE a
    IN  IF b # <<>> /\ Head(b).k = "doctype" THEN SkipWs(Tail(b)) ELSE b

plist_from_xml(doc) ==
    LET s == XmlProlog(doc) IN
    IF s = <<>> \/ Head(s) # Tok("open", "plist") THEN PFail
    ELSE LET r == xml_value(Tail(s))
             e == SkipWs(r.rest)
         IN  IF r.ok /\ e # <<>> /\ Head(e) = Tok("close", "plist") /\ SkipWs(Tail(e)) = <<>>
             THEN POk(r.node, <<>>)
             ELSE PFail

RECURSIVE json_value(_), json_elems(_, _, _), json_members(_, _, _)
json_value(ts) ==
    LET s == SkipWs(ts) IN
    IF s = <<>> THEN PFail
    ELSE LET h == Head(s) IN
         CASE h.k = "qstr" -> POk(StrV(h.v), Tail(s))
           [] h.k = "bare" /\ h.v \in IntTexts -> POk(IntV(h.v), Tail(s))
           [] h.k = "bare" /\ h.v \in RealTexts -> POk(RealV(h.v), Tail(s))
           [] h.k = "bare" /\ h.v \in {"true", "false"} -> POk(BoolV(h.v), Tail(s))
           [] h.k = "bare" /\ h.v = "null" -> POk(NullV, Tail(s))
           [] h = P("[") -> json_elems(Tail(s), <<>>, TRUE)
           [] h = P("{") -> json_members(Tail(s), DictV(<<>>, <<>>), TRUE)
           [] OTHER -> PFail
json_elems(ts, acc, first) ==
    LET s == SkipWs(ts) IN
    IF s = <<>> THEN PFail
    ELSE IF first /\ Head(s) = P("]") THEN POk(ArrV(acc), Tail(s))
    ELSE LET r == json_value(s)
             e == SkipWs(r.rest)
         IN  IF ~r.ok \/ e = <<>> THEN PFail
             ELSE IF Head(e) = P("]") THEN POk(ArrV(Append(acc, r.node)), Tail(e))
             ELSE IF Head(e) = P(",") THEN json_elems(Tail(e), Append(acc, r.node), FALSE)
             ELSE PFail
json_members(ts, d, first) ==
    LET s == SkipWs(ts) IN
    IF s = <<>> THEN PFail
    ELSE IF first /\ Head(s) = P("}") THEN POk(d, Tail(s))
    ELSE IF Head(s).k # "qstr" THEN PFail
    ELSE LET c == SkipWs(Tail(s)) IN
         IF c = <<>> \/ Head(c) # P(":") THEN PFail
         ELSE LET r == json_value(Tail(c))
                  e == SkipWs(r.rest)
              IN  IF ~r.ok \/ e = <<>> THEN PFail
                  ELSE IF Head(e) = P("}")
                       THEN POk(DictPut(d, Head(s).v, r.node), Tail(e))
                  ELSE IF Head(e) = P(",")
                       THEN json_members(Tail(e), DictPut(d, Head(s).v, r.node), FALSE)
                  ELSE PFail

plist_from_json(doc) ==
    LET r == json_value(doc) IN
    IF r.ok /\ SkipWs(r.rest) = <<>> THEN POk(r.node, <<>>) ELSE PFail

\* OpenStep: every bareword is a String, numeric-looking or not
RECURSIVE ostep_value(_), ostep_elems(_, _), ostep_entries(_, _)
ostep_value(ts) ==
    LET s == SkipWs(ts) IN
    IF s = <<>> THEN PFail
    ELSE LET h == Head(s) IN
         CASE h.k \in {"bare", "qstr"} -> POk(StrV(h.v), Tail(s))
           [] h.k = "hex" /\ RawOfHex(h.v) # "?" -> POk(DataV(RawOfHex(h.v)), Tail(s))
           [] h = P("(") -> ostep_elems(Tail(s), <<>>)
           [] h = P("{") -> ostep_entries(Tail(s), DictV(<<>>, <<>>))
           [] OTHER -> PFail
ostep_elems(ts, acc) ==
    LET s == SkipWs(ts) IN
    IF s = <<>> THEN PFail
    ELSE IF Head(s) = P(")") THEN POk(ArrV(acc), Tail(s))
    ELSE LET r == ostep_value(s)
             e == SkipWs(r.rest)
         IN  IF ~r.ok \/ e = <<>> THEN PFail
             ELSE IF Head(e) = P(")") THEN POk(ArrV(Append(acc, r.node)), Tail(e))
             ELSE IF Head(e) = P(",") THEN ostep_elems(Tail(e), Append(acc, r.node))
             ELSE PFail
ostep_entries(ts, d) ==
    LET s == SkipWs(ts) IN
    IF s = <<>> THEN PFail
    ELSE IF Head(s) = P("}") THEN POk(d, Tail(s))
    ELSE IF Head(s).k \notin {"bare", "qstr"} THEN PFail
    ELSE LET c == SkipWs(Tail(s)) IN
         IF c = <<>> \/ Head(c) # P("=") THEN PFail
         ELSE LET r == ostep_value(Tail(c))
                  e == SkipWs(r.rest)
              IN  IF ~r.ok \/ e = <<>> THEN PFail
                  ELSE IF Head(e) = P("}")
                       THEN POk(DictPut(d, Head(s).v, r.node), Tail(e))
                  ELSE IF Head(e) = P(";")
                       THEN ostep_entries(Tail(e), DictPut(d, Head(s).v, r.node))
                  ELSE PFail

plist_from_openstep(doc) ==
    LET r == ostep_value(doc) IN
    IF r.ok /\ SkipWs(r.rest) = <<>> THEN POk(r.node, <<>>) ELSE PFail

\* Binary: object references are followed through the object table; an
\* index at or past the object count is corruption, an index of an object
\* still being decoded is a cycle.
\* a decoder that reports every failure as a parse error
BErr_AsParse(code) == [error |-> ErrPARSE, node |-> NoTree, nodes |-> <<>>]
BErr(code) == [error |-> code, node |-> NoTree, nodes |-> <<>>]
BOk(n) == [error |-> ErrSUCCESS, node |-> n, nodes |-> <<>>]
BOks(ns) == [error |-> ErrSUCCESS, node |-> NoTree, nodes |-> ns]
BinScalars == {"null", "boolean", "integer", "real", "string", "date", "data"}

RECURSIVE DictOf(_, _, _)
DictOf(keys, kids, d) ==
    IF keys = <<>> THEN d
    ELSE DictOf(Tail(keys), Tail(kids), DictPut(d, Head(keys).v, Head(kids)))

RECURSIVE bin_object(_, _, _), bin_refs(_, _, _, _)
bin_object(objs, i, open) ==
    IF i >= Len(objs) THEN BErr(ErrPARSE)
    ELSE IF i \in open THEN BErr(ErrCIRCULAR_REF)
    ELSE LET o == objs[i + 1]
             m == Len(o.refs) \div 2
         IN  CASE o.k \in BinScalars -> BOk(Scalar(o.k, o.v))
               [] o.k = "array" ->
                     LET r == bin_refs(objs, o.refs, open \cup {i}, <<>>) IN
                     IF r.error # ErrSUCCESS THEN BErr(r.error) ELSE BOk(ArrV(r.nodes))
               [] o.k = "dict" /\ Len(o.refs) = 2 * m ->
                     LET ks == bin_refs(objs, SubSeq(o.refs, 1, m), open \cup {i}, <<>>)
                         vs == bin_refs(objs, After(o.refs, m), open \cup {i}, <<>>)
                     IN  IF ks.error # ErrSUCCESS THEN BErr(ks.error)
                         ELSE IF \E j \in 1..m : ks.nodes[j].t # "string" THEN BErr(ErrPARSE)
                         ELSE IF vs.error # ErrSUCCESS THEN BErr(vs.error)
                         ELSE BOk(DictOf(ks.nodes, vs.nodes, DictV(<<>>, <<>>)))
               [] OTHER -> BErr(ErrPARSE)
bin_refs(objs, refs, open, acc) ==
    IF refs = <<>> THEN BOks(acc)
    ELSE LET r == bin_object(objs, Head(refs), open) IN
         IF r.error # ErrSUCCESS THEN BErr(r.error)
         ELSE bin_refs(objs, Tail(refs), open, Append(acc, r.node))

plist_from_bin(doc) ==
    IF Len(doc) < 3 THEN BErr(ErrPARSE)
    ELSE LET trailer == doc[Len(doc)]
             objs == SubSeq(doc, 3, Len(doc) - 1)
         IN  IF \/ doc[1] # Tok("magic", "bplist")
                \/ doc[2].k # "version"
                \/ trailer.k # "trailer"
                \/ Len(trailer.refs) # 2
             THEN BErr(ErrPARSE)
             ELSE IF trailer.refs[1] > Len(objs) \/ trailer.refs[2] >= trailer.refs[1]
             THEN BErr(ErrPARSE)
             ELSE bin_object(SubSeq(objs, 1, trailer.refs[1]), trailer.refs[2], {})

(***************************************************************************)
(* Format detection (4.1) and the engine's decode entry point.             *)
(***************************************************************************)
detect(doc) ==
    IF doc # <<>> /\ Head(doc) = Tok("magic", "bplist") THEN FormatBINARY
    ELSE LET s == SkipWs(doc) IN
         IF s = <<>> THEN FormatNONE
         ELSE IF Head(s).k \in {"decl", "doctype"} \/ Head(s) = Tok("open", "plist")
              THEN FormatXML
         ELSE IF Head(s) \in {P("{"), P("[")} /\ plist_from_json(doc).ok
              THEN FormatJSON
         ELSE IF Head(s) \in {P("{"), P("(")} \/ Head(s).k \in {"bare", "qstr"}
              THEN FormatOPENSTEP
         ELSE FormatNONE

DecErr(code) == [error |-> code, tree |-> NoTree, format |-> FormatNONE]
DecOk(tree, fmt) == [error |-> ErrSUCCESS, tree |-> tree, format |-> fmt]

\* emptyPolicy is the engine's fixed answer to a zero-length buffer, which
\* the design document files both under Parse error (4.1) and under
\* InvalidArgument (7).
decoded(r, fmt) == IF r.ok THEN DecOk(r.node, fmt) ELSE DecErr(ErrPARSE)
decode(doc, fmt) ==
    CASE fmt = FormatBINARY ->
            LET r == plist_from_bin(doc) IN
            IF r.error = ErrSUCCESS THEN DecOk(r.node, fmt) ELSE DecErr(r.error)
      [] fmt = FormatXML -> decoded(plist_from_xml(doc), fmt)
      [] fmt = FormatJSON -> decoded(plist_from_json(doc), fmt)
      [] fmt = FormatOPENSTEP -> decoded(plist_from_openstep(doc), fmt)
      [] OTHER -> DecErr(ErrPARSE)
plist_from_memory(doc, emptyPolicy) ==
    IF doc = <<>>
    THEN DecErr(IF emptyPolicy = "invalid_arg" THEN ErrINVALID_ARG ELSE ErrPARSE)
    ELSE decode(doc, detect(doc))

(***************************************************************************)
(* JavaScript values handed to and returned by the binding, and the corpus *)
(* of inputs the callers of the model draw from.                           *)
(***************************************************************************)
JsString(toks) == [js |-> "string", toks |-> toks]
JsBytes(toks) == [js |-> "Uint8Array", toks |-> toks]
JsNumber == [js |-> "number", toks |-> <<>>]
NoValue == [js |-> "undefined", toks |-> <<>>]

XmlEl(tag, text) == <<Tok("open", tag), Tok("text", text), Tok("close", tag)>>
XmlKey(k) == XmlEl("key", k) \o <<Ws>>
XmlDoc(body) ==
    <<Tok("decl", "<?xml"), Ws, Tok("doctype", "<!DOCTYPE plist"), Ws,
      Tok("open", "plist"), Ws>> \o body \o <<Ws, Tok("close", "plist")>>
Q(str) == Tok("qstr", str)
B(str) == Tok("bare", str)

\* test/corpus/sample.xml, with a two-element Items
SampleXml ==
    XmlDoc(<<Tok("open", "dict"), Ws>>
           \o XmlKey("Name") \o XmlEl("string", "Test") \o <<Ws>>
           \o XmlKey("Count") \o XmlEl("integer", "42") \o <<Ws>>
           \o XmlKey("Enabled") \o <<Tok("empty", "true"), Ws>>
           \o XmlKey("Items") \o <<Tok("open", "array")>>
           \o XmlEl("string", "one") \o XmlEl("string", "two")
           \o <<Tok("close", "array"), Ws, Tok("close", "dict")>>)
\* test/corpus/sample-openstep-compat.xml: the same without the Boolean
SampleXmlCompat ==
    XmlDoc(<<Tok("open", "dict"), Ws>>
           \o XmlKey("Name") \o XmlEl("string", "Test") \o <<Ws>>
           \o XmlKey("Count") \o XmlEl("integer", "42") \o <<Ws>>
           \o XmlKey("Items") \o <<Tok("open", "array")>>
           \o XmlEl("string", "one") \o XmlEl("string", "two")
           \o <<Tok("close", "array"), Ws, Tok("close", "dict")>>)
\* test/corpus/sample.json
SampleJson ==
    <<P("{"), Ws, Q("Name"), P(":"), Ws, Q("Test"), P(","), Ws,
      Q("Count"), P(":"), Ws, B("42"), P(","), Ws,
      Q("Enabled"), P(":"), Ws, B("true"), P(","), Ws,
      Q("Items"), P(":"), Ws, P("["), Q("one"), P(","), Ws, Q("two"), P("]"),
      Ws, P("}")>>
\* test/corpus/sample.openstep
SampleOpenStep ==
    <<P("{"), Ws, B("Name"), Ws, P("="), Ws, B("Test"), P(";"), Ws,
      B("Count"), Ws, P("="), Ws, B("42"), P(";"), Ws,
      B("Items"), Ws, P("="), Ws, P("("), B("one"), P(","), Ws, B("two"), P(")"),
      P(";"), Ws, P("}")>>
\* <plist><array><data>aGk=</data><true/></array></plist>
XmlDataBool ==
    <<Tok("open", "plist"), Tok("open", "array")>> \o XmlEl("data", "aGk=")
    \o <<Tok("empty", "true"), Tok("close", "array"), Tok("close", "plist")>>
\* <plist><array><date>...</date><real>1.5</real></array></plist>
XmlDateReal ==
    <<Tok("open", "plist"), Tok("open", "array")>>
    \o XmlEl("date", "2001-01-01T00:00:00Z") \o XmlEl("real", "1.5")
    \o <<Tok("close", "array"), Tok("close", "plist")>>
\* bplist00 { Count: 42 }
BinDoc(objs, count, top) ==
    <<Tok("magic", "bplist"), Tok("version", "00")>> \o objs
    \o <<BTok("trailer", "", <<count, top>>)>>
BinSample ==
    BinDoc(<<BTok("dict", "", <<1, 2>>), BTok("string", "Count", <<>>),
             BTok("integer", "42", <<>>)>>, 3, 0)
\* an array whose second reference equals the object count
BinBadRef ==
    BinDoc(<<BTok("array", "", <<1, 2>>), BTok("integer", "7", <<>>)>>, 2, 0)
\* an array that holds itself
BinCycle ==
    BinDoc(<<BTok("array", "", <<1>>), BTok("array", "", <<0>>)>>, 2, 0)

\* The inputs callers hand to parse and to the one-step functions.
\*   7: [null, true, 1.5]
\*   8: {}, an empty dictionary in JSON and in OpenStep alike
\*   9: ( "a b", <6869>, ) with OpenStep's tolerated trailing comma
\*  11, 12: a string and a Uint8Array of length zero;  13: white space only
\*  14: bytes of no format;  15: an XML dictionary left open
Corpus ==
    << JsString(SampleXml), JsString(SampleXmlCompat), JsString(SampleJson),
       JsString(SampleOpenStep), JsString(XmlDataBool), JsString(XmlDateReal),
       JsString(<<P("["), B("null"), P(","), B("true"), P(","), B("1.5"), P("]")>>),
       JsString(<<P("{"), P("}")>>),
       JsString(<<P("("), Q("a b"), P(","), Tok("hex", "6869"), P(","), P(")")>>),
       JsBytes(BinSample),
       JsString(<<>>), JsBytes(<<>>), JsString(<<Ws, Ws>>),
       JsBytes(<<Tok("junk", "")>>),
       JsString(<<Tok("open", "plist"), Tok("open", "dict")>> \o XmlEl("key", "Name")),
       JsBytes(BinBadRef), JsBytes(BinCycle), JsNumber >>

(***************************************************************************)
(* The WebAssembly heap of one module instance: address |-> block.  A      *)
(* block is a malloc'ed region with what the program keeps in it: the      *)
(* bytes of a buffer, the fields of a plist_result_t, or a plist tree.     *)
(* A machine m is the heap together with the log of calls made into the    *)
(* module (calls) and of the error codes the engine returned (eng) during  *)
(* the JS call under way.                                                  *)
(***************************************************************************)
Block(kind) ==
    [kind |-> kind, live |-> TRUE, toks |-> <<>>, tree |-> NoTree,
     error |-> 0, data |-> 0, length |-> 0, format |-> 0]
\* A call runs on the instance's heap.  Address 0 is linear memory like any
\* other: a store through a null pointer lands there.  fail = n > 0 makes
\* the n-th allocation of the wrapper or of the JS layer in this call return
\* NULL; the engine's own allocations are not failed.
Machine(heap) ==
    [heap |-> (0 :> Block("null")) @@ heap, calls |-> <<>>, eng |-> <<>>, fail |-> 0]
Scarce(m, n) == [m EXCEPT !.fail = n]
R(m, ret) == [m |-> m, ret |-> ret]
Call(m, name) == [m EXCEPT !.calls = Append(@, name)]
Eng(m, code) == [m EXCEPT !.eng = Append(@, code)]

\* Freed memory keeps its bytes, except that the allocator may thread its
\* free-list links through the first bytes of the chunk (for "bplist00",
\* magic and version together).
Clobbered(toks) ==
    [i \in 1..Len(toks) |->
        IF i = 1 \/ (i = 2 /\ toks[1].k = "magic") THEN Tok("junk", "") ELSE toks[i]]

NextPtr(heap) ==
    CHOOSE p \in 1..(Cardinality(DOMAIN heap) + 1) :
        /\ p \notin DOMAIN heap
        /\ \A q \in 1..(p - 1) : q \in DOMAIN heap
Failable == {"result", "buffer", "copy"}
malloc(m, blk) ==
    IF blk.kind \in Failable /\ m.fail = 1
    THEN R(Call([m EXCEPT !.fail = 0], "NULL"), 0)
    ELSE LET p == NextPtr(m.heap) IN
         R([m EXCEPT !.heap = (p :> blk) @@ @,
                     !.fail = IF blk.kind \in Failable /\ @ > 0 THEN @ - 1 ELSE @],
           p)
free(m, ptr, clobber) ==
    IF ptr = 0 THEN m
    ELSE [m EXCEPT !.heap[ptr].live = FALSE,
                   !.heap[ptr].toks = IF clobber THEN Clobbered(@) ELSE @]
\* What is left of the heap when the JS call is over: the live blocks
Sweep(heap) == [p \in {q \in DOMAIN heap \ {0} : heap[q].live} |-> heap[p]]

(***************************************************************************)
(* src/src/plist_wrapper.c                                                 *)
(***************************************************************************)
result_alloc(m) == malloc(Call(m, "result_alloc"), Block("result"))

\* result_free that releases the output and keeps the record for the next call
result_free_KeepsRecord(m, res, clobber) ==
    free(Call(m, "result_free"), m.heap[res].data, clobber)
result_free(m, res, clobber) ==
    free(free(Call(m, "result_free"), m.heap[res].data, clobber), res, FALSE)

result_get_error(m, res) == R(Call(m, "result_get_error"), m.heap[res].error)
result_get_data(m, res) == R(Call(m, "result_get_data"), m.heap[res].data)
result_get_length(m, res) == R(Call(m, "result_get_length"), m.heap[res].length)
\* result_get_format reading the field next to format
result_get_format_OfError(m, res) ==
    R(Call(m, "result_get_format"), m.heap[res].error)
result_get_format(m, res) == R(Call(m, "result_get_format"), m.heap[res].format)

alloc_buffer(m, size) == malloc(Call(m, "alloc_buffer"), Block("buffer"))
\* free_buffer that returns without releasing the buffer
free_buffer_Keeps(m, ptr) == Call(m, "free_buffer")
free_buffer(m, ptr) == free(Call(m, "free_buffer"), ptr, FALSE)

\* plist_parse after plist_from_memory has answered d: the tree is the
\* engine's allocation; err and fmt go into the result
plist_parse_out(m, res, d) ==
    LET m1 == Eng(m, d.error)
        a == IF d.error = ErrSUCCESS
             THEN malloc(m1, [Block("plist") EXCEPT !.tree = d.tree])
             ELSE R(m1, 0)
    IN  R([a.m EXCEPT !.heap[res].error = d.error, !.heap[res].format = d.format],
          a.ret)

\* plist_parse that does not store the engine's error code in res->error
plist_parse_DropsError(m, res, data, length, emptyPolicy) ==
    LET d == plist_from_memory(SubSeq(m.heap[data].toks, 1, length), emptyPolicy)
        m1 == Eng(Call(m, "plist_parse"), d.error)
        a == IF d.error = ErrSUCCESS
             THEN malloc(m1, [Block("plist") EXCEPT !.tree = d.tree])
             ELSE R(m1, 0)
    IN  R([a.m EXCEPT !.heap[res].format = d.format], a.ret)

plist_parse(m, res, data, length, emptyPolicy) ==
    plist_parse_out(Call(m, "plist_parse"), res,
                    plist_from_memory(SubSeq(m.heap[data].toks, 1, length), emptyPolicy))

plist_free_handle(m, plist) == free(Call(m, "plist_free_handle"), plist, FALSE)

\* The tree behind a plist_t
TreeAt(m, plist) == IF plist = 0 THEN NoTree ELSE m.heap[plist].tree

\* The engine's encoders malloc the output and store it through
\* &res->data and &res->length; on failure they leave both untouched.
EmitInto(m, res, e) ==
    IF e.error = ErrSUCCESS
    THEN LET a == malloc(m, [Block("data") EXCEPT !.toks = e.data]) IN
         [a.m EXCEPT !.heap[res].error = e.error,
                     !.heap[res].data = a.ret,
                     !.heap[res].length = Len(e.data)]
    ELSE [m EXCEPT !.heap[res].error = e.error]

plist_to_xml_wrapper(m, res, plist) ==
    LET e == plist_to_xml(TreeAt(m, plist)) IN
    EmitInto(Eng(Call(m, "plist_to_xml_wrapper"), e.error), res, e)

plist_to_bin_wrapper(m, res, plist) ==
    LET e == plist_to_bin(TreeAt(m, plist))
        m1 == Eng(Call(m, "plist_to_bin_wrapper"), e.error)
    IN  IF e.error = ErrSUCCESS
        THEN LET bin == malloc(m1, [Block("data") EXCEPT !.toks = e.data])
                 cpy == malloc(bin.m, Block("copy"))
             IN  free([cpy.m EXCEPT !.heap[res].error = e.error,
                                    !.heap[res].data = cpy.ret,
                                    !.heap[cpy.ret].toks = bin.m.heap[bin.ret].toks,
                                    !.heap[res].length = Len(e.data)],
                      bin.ret, FALSE)
        ELSE [m1 EXCEPT !.heap[res].error = e.error]

\* plist_to_json_wrapper calling the OpenStep encoder
plist_to_json_wrapper_OpenStep(m, res, plist, prettify, jsonPolicy) ==
    LET e == plist_to_openstep(TreeAt(m, plist), prettify = 1) IN
    EmitInto(Eng(Call(m, "plist_to_json_wrapper"), e.error), res, e)

plist_to_json_wrapper(m, res, plist, prettify, jsonPolicy) ==
    LET e == plist_to_json(TreeAt(m, plist), prettify = 1, jsonPolicy) IN
    EmitInto(Eng(Call(m, "plist_to_json_wrapper"), e.error), res, e)

plist_to_openstep_wrapper(m, res, plist, prettify) ==
    LET e == plist_to_openstep(TreeAt(m, plist), prettify = 1) IN
    EmitInto(Eng(Call(m, "plist_to_openstep_wrapper"), e.error), res, e)

get_version(m) == R(Call(m, "get_version"), "2.6.0")

(***************************************************************************)
(* src/src/plist.mjs.  A JS call ends in a completion J: it returns        *)
(* (outcome "return") or throws (outcome is the error's class; code is a   *)
(* PlistError's code).  value is a returned string or Uint8Array; handle   *)
(* and format are the fields of a returned Plist; ptr and length are the   *)
(* pair _withResult and toBuffer return.                                   *)
(***************************************************************************)
Throw(m, class, code) ==
    [m |-> m, outcome |-> class, code |-> code, value |-> NoValue,
     handle |-> 0, format |-> 0, ptr |-> 0, length |-> 0]
Return(m) == Throw(m, "return", 0)

TextEncoder_encode(str) == JsBytes(str.toks)
TextDecoder_decode(bytes) == JsString(bytes.toks)
\* new Uint8Array(HEAPU8.buffer, ptr, length): the bytes now at ptr,
\* whether or not the block there is still allocated
HEAPU8(m, ptr, length) ==
    JsBytes(IF length = 0 THEN <<>> ELSE SubSeq(m.heap[ptr].toks, 1, length))
ReadLog(m, ptr) ==
    Call(m, IF ptr \in DOMAIN m.heap /\ ~m.heap[ptr].live
            THEN "HEAPU8.read(freed)" ELSE "HEAPU8.read")

formatName(format) ==
    CASE format = FormatXML -> "xml"
      [] format = FormatBINARY -> "binary"
      [] format = FormatJSON -> "json"
      [] format = FormatOPENSTEP -> "openstep"
      [] OTHER -> "unknown"

\* The arrow function a conversion hands to _withResult, as the variables
\* it closes over: which wrapper it calls, on which handle, with which flags
Fn(name, handle, prettify, jsonPolicy) ==
    [name |-> name, handle |-> handle, prettify |-> prettify, jsonPolicy |-> jsonPolicy]
Apply(fn, m, res) ==
    CASE fn.name = "plist_to_xml_wrapper" -> plist_to_xml_wrapper(m, res, fn.handle)
      [] fn.name = "plist_to_bin_wrapper" -> plist_to_bin_wrapper(m, res, fn.handle)
      [] fn.name = "plist_to_json_wrapper" ->
            plist_to_json_wrapper(m, res, fn.handle, fn.prettify, fn.jsonPolicy)
      [] fn.name = "plist_to_openstep_wrapper" ->
            plist_to_openstep_wrapper(m, res, fn.handle, fn.prettify)

\* _withResult once fn(res) has run
withResult_try(m, res, clobber) ==
    LET error == result_get_error(m, res)
        body == IF error.ret # 0
                THEN Throw(error.m, "PlistError", error.ret)
                ELSE LET dataPtr == result_get_data(error.m, res)
                         length == result_get_length(dataPtr.m, res)
                     IN  [Return(length.m) EXCEPT !.ptr = dataPtr.ret,
                                                  !.length = length.ret]
    IN  [body EXCEPT !.m = result_free(body.m, res, clobber)]

\* _withResult without its error check
withResult_NoThrow(m, fn, clobber) ==
    LET r == result_alloc(m)
        res == r.ret
        error == result_get_error(Apply(fn, r.m, res), res)
        dataPtr == result_get_data(error.m, res)
        length == result_get_length(dataPtr.m, res)
        body == [Return(length.m) EXCEPT !.ptr = dataPtr.ret, !.length = length.ret]
    IN  [body EXCEPT !.m = result_free(body.m, res, clobber)]

withResult(m, fn, clobber) ==
    LET r == result_alloc(m) IN withResult_try(Apply(fn, r.m, r.ret), r.ret, clobber)

\* HEAPU8.subarray(dataPtr, dataPtr + length) of the pair _withResult has
\* returned: decoded as text by toXML, toJSON and toOpenStep, copied by toBinary
subarray(w, text) ==
    IF w.outcome # "return" THEN w
    ELSE [w EXCEPT !.m = ReadLog(w.m, w.ptr),
                   !.value = IF text
                             THEN TextDecoder_decode(HEAPU8(w.m, w.ptr, w.length))
                             ELSE HEAPU8(w.m, w.ptr, w.length)]

Plist_toXML(m, handle, clobber) ==
    subarray(withResult(m, Fn("plist_to_xml_wrapper", handle, 0, ""), clobber), TRUE)

Plist_toBinary(m, handle, clobber) ==
    subarray(withResult(m, Fn("plist_to_bin_wrapper", handle, 0, ""), clobber), FALSE)

Plist_toJSON(m, handle, prettify, jsonPolicy, clobber) ==
    subarray(withResult(m, Fn("plist_to_json_wrapper", handle,
                                IF prettify THEN 1 ELSE 0, jsonPolicy), clobber), TRUE)

\* toOpenStep handing the handle to the JSON wrapper
Plist_toOpenStep_ViaJson(m, handle, prettify, clobber) ==
    subarray(withResult(m, Fn("plist_to_json_wrapper", handle,
                                IF prettify THEN 1 ELSE 0, "coerce"), clobber), TRUE)

Plist_toOpenStep(m, handle, prettify, clobber) ==
    subarray(withResult(m, Fn("plist_to_openstep_wrapper", handle,
                                IF prettify THEN 1 ELSE 0, ""), clobber), TRUE)

\* free() without the test of this._handle
Plist_free_Unguarded(m, handle) == R(plist_free_handle(m, handle), 0)

\* free(): the machine and the handle it leaves in the Plist
Plist_free(m, handle) ==
    IF handle # 0 THEN R(plist_free_handle(m, handle), 0) ELSE R(m, handle)

toBuffer(m, data) ==
    IF data.js \notin {"string", "Uint8Array"} THEN Throw(m, "TypeError", 0)
    ELSE LET bytes == IF data.js = "string" THEN TextEncoder_encode(data) ELSE data
             a == alloc_buffer(m, Len(bytes.toks))
         IN  IF a.ret = 0 THEN Throw(a.m, "PlistError", ErrNO_MEM)
             ELSE [Return([Call(a.m, "HEAPU8.set")
                             EXCEPT !.heap[a.ret].toks = bytes.toks])
                     EXCEPT !.ptr = a.ret, !.length = Len(bytes.toks)]

\* "Error" is Error("Module not initialized. Call init() first.")
parse_out(ptr, res, handle) ==
    LET error == result_get_error(handle.m, res)
        body == IF error.ret # 0
                THEN Throw(error.m, "PlistError", error.ret)
                ELSE LET format == result_get_format(error.m, res) IN
                     [Return(format.m) EXCEPT !.handle = handle.ret,
                                              !.format = format.ret]
    IN  [body EXCEPT !.m = free_buffer(result_free(body.m, res, FALSE), ptr)]
parse_buffer(b, emptyPolicy) ==
    IF b.outcome # "return" THEN b
    ELSE LET r == result_alloc(b.m) IN
         parse_out(b.ptr, r.ret, plist_parse(r.m, r.ret, b.ptr, b.length, emptyPolicy))
parse(m, wasmModule, data, emptyPolicy) ==
    IF wasmModule = 0 THEN Throw(m, "Error", 0)
    ELSE parse_buffer(toBuffer(m, data), emptyPolicy)

\* version() without the check of wasmModule
version_Unguarded(m, wasmModule) ==
    LET v == get_version(m) IN
    [Return(Call(v.m, "UTF8ToString")) EXCEPT !.value = JsString(<<B(v.ret)>>)]

version(m, wasmModule) ==
    IF wasmModule = 0 THEN Throw(m, "Error", 0)
    ELSE LET v == get_version(m) IN
         [Return(Call(v.m, "UTF8ToString")) EXCEPT !.value = JsString(<<B(v.ret)>>)]

\* The convenience functions: parse, convert, and free in a finally
\* the one-step functions without plist.free() in their finally
Finally_NoFree(c, handle) ==
    [c EXCEPT !.handle = 0, !.format = 0, !.ptr = 0, !.length = 0]

Finally(c, handle) ==
    [c EXCEPT !.m = Plist_free(c.m, handle).m, !.handle = 0, !.format = 0,
              !.ptr = 0, !.length = 0]

\* The method a convenience function calls on the Plist it has parsed
Method(name, m, handle, prettify, jsonPolicy, clobber) ==
    CASE name = "toBinary" -> Plist_toBinary(m, handle, clobber)
      [] name = "toXML" -> Plist_toXML(m, handle, clobber)
      [] name = "toJSON" -> Plist_toJSON(m, handle, prettify, jsonPolicy, clobber)
      [] name = "toOpenStep" -> Plist_toOpenStep(m, handle, prettify, clobber)

\* try { return plist.<name>(...) } finally { plist.free() }; a throw of
\* parse leaves before the try
Try(plist, name, prettify, jsonPolicy, clobber) ==
    IF plist.outcome # "return" THEN plist
    ELSE Finally(Method(name, plist.m, plist.handle, prettify, jsonPolicy, clobber),
                 plist.handle)

toBinary(m, wasmModule, data, emptyPolicy, clobber) ==
    Try(parse(m, wasmModule, data, emptyPolicy), "toBinary", FALSE, "", clobber)

toXML(m, wasmModule, data, emptyPolicy, clobber) ==
    Try(parse(m, wasmModule, data, emptyPolicy), "toXML", FALSE, "", clobber)

toJSON(m, wasmModule, data, prettify, emptyPolicy, jsonPolicy, clobber) ==
    Try(parse(m, wasmModule, data, emptyPolicy), "toJSON", prettify, jsonPolicy,
        clobber)

toOpenStep(m, wasmModule, data, prettify, emptyPolicy, clobber) ==
    Try(parse(m, wasmModule, data, emptyPolicy), "toOpenStep", prettify, "", clobber)

(***************************************************************************)
(* The state machine.  A caller makes one JS call at a time; the call runs *)
(* to its completion, which stays in `last` until the caller has taken it  *)
(* (Continue) or has handed a returned output back to parse (ParseOutput). *)
(***************************************************************************)
\* Plist objects alive at a time
MaxPlists == 1
\* createPlistModule() calls a caller that races init() can have in flight
MaxModules == 2
\* The allocations of one call that can be made to fail: a one-step toBinary
\* makes four (input buffer, two result records, the copy of the output)
MaxFail == 4

VARIABLES
    wasmModule,  \* plist.mjs `let wasmModule`: 0 is undefined, else the instance
    created,     \* number of createPlistModule() calls made so far
    pending,     \* instances whose `await createPlistModule()` has not resumed
    heaps,       \* the heap of each module instance
    plists,      \* the Plist objects the caller holds, by slot
    env,         \* what the run assumes of engine and caller (fixed by Init)
    last         \* the completion of the latest JS call, until taken

vars == <<wasmModule, created, pending, heaps, plists, env, last>>

\* A slot with no Plist.  Of a Plist: _wasm, _handle, _format.
NoPlist == [wasm |-> 0, handle |-> 0, format |-> 0]

\* A completion as the caller sees it (outcome, code, value), with what the
\* call did below JS (calls, eng) and what it was made on: the slot of the
\* Plist, the corpus input, the prettify flag, and
\*   tree  the tree a conversion was made from; for parse(output), the tree
\*         the output was made from,
\*   via   for parse(output), the format the output was made in,
\*   given the data handed to parse or to a one-step function,
\*   plist the Plist a method was called on, as it was before the call.
NoCall ==
    [op |-> "none", slot |-> 0, input |-> 0, prettify |-> FALSE,
     outcome |-> "none", code |-> 0, value |-> NoValue, calls |-> <<>>,
     eng |-> <<>>, tree |-> NoTree, via |-> 0, given |-> NoValue,
     plist |-> NoPlist]
Done(op, slot, input, prettify, j, tree, via, given) ==
    [op |-> op, slot |-> slot, input |-> input, prettify |-> prettify,
     outcome |-> j.outcome, code |-> j.code, value |-> j.value,
     calls |-> j.m.calls, eng |-> j.m.eng, tree |-> tree, via |-> via,
     given |-> given,
     plist |-> IF slot = 0 \/ op = "parse" THEN NoPlist ELSE plists[slot]]

Idle == last = NoCall
HeapOf(w) == IF w = 0 THEN <<>> ELSE heaps[w]
Settle(w, m) == IF w = 0 THEN heaps ELSE [heaps EXCEPT ![w] = Sweep(m.heap)]

\* The engine's convention for Data and Date in JSON output, whether the
\* caller starts an init() while another is still awaiting, and whether the
\* heap can run out.
Envs(races, ooms) == [json : {"error", "coerce"}, race : races, oom : ooms]

\* The engine's answer to a zero-length buffer is a parse error (spec 4.1)
\* or an invalid argument (spec 7); no other input consults it.
EmptyAnswers(data) ==
    IF data.js \in {"string", "Uint8Array"} /\ data.toks = <<>>
    THEN {"parse", "invalid_arg"} ELSE {"parse"}

\* Which allocation of a call fails (0: none)
Fails == IF env.oom THEN 0..MaxFail ELSE {0}

InitWith(races, ooms) ==
    /\ wasmModule = 0
    /\ created = 0
    /\ pending = {}
    /\ heaps = [w \in 1..MaxModules |-> <<>>]
    /\ plists = [s \in 1..MaxPlists |-> NoPlist]
    /\ env \in Envs(races, ooms)
    /\ last = NoCall

Init == InitWith({FALSE}, {FALSE})

\* init() up to its await: `if (!wasmModule) wasmModule = await createPlistModule()`
InitCall ==
    /\ Idle
    /\ wasmModule = 0
    /\ created < MaxModules
    /\ env.race \/ pending = {}
    /\ created' = created + 1
    /\ pending' = pending \cup {created + 1}
    /\ UNCHANGED <<wasmModule, heaps, plists, env, last>>

\* init() resumed: the assignment to wasmModule
InitResume(w) ==
    /\ Idle
    /\ w \in pending
    /\ wasmModule' = w
    /\ pending' = pending \ {w}
    /\ UNCHANGED <<created, heaps, plists, env, last>>

FreeSlots == {s \in 1..MaxPlists : plists[s].handle = 0}

ParseInto(j, data, input, origin, via) ==
    /\ FreeSlots # {}
    /\ heaps' = Settle(wasmModule, j.m)
    /\ plists' = IF j.outcome = "return"
                 THEN [plists EXCEPT ![CHOOSE x \in FreeSlots :
                                          \A y \in FreeSlots : x <= y] =
                         [wasm |-> wasmModule, handle |-> j.handle,
                          format |-> j.format]]
                 ELSE plists
    /\ last' = Done("parse",
                    IF j.outcome = "return"
                    THEN CHOOSE x \in FreeSlots : \A y \in FreeSlots : x <= y
                    ELSE 0,
                    input, FALSE, j, origin, via, data)
    /\ UNCHANGED <<wasmModule, created, pending, env>>

\* parse(data) on an input of the corpus
Parse(i, e) ==
    /\ Idle
    /\ \E n \in Fails :
          ParseInto(parse(Scarce(Machine(HeapOf(wasmModule)), n), wasmModule,
                          Corpus[i], e),
                    Corpus[i], i, NoTree, 0)

ConvOps == {"Plist.toXML", "Plist.toBinary", "Plist.toJSON", "Plist.toOpenStep",
            "toXML", "toBinary", "toJSON", "toOpenStep"}
TargetOf(op) ==
    CASE op \in {"Plist.toXML", "toXML"} -> FormatXML
      [] op \in {"Plist.toBinary", "toBinary"} -> FormatBINARY
      [] op \in {"Plist.toJSON", "toJSON"} -> FormatJSON
      [] op \in {"Plist.toOpenStep", "toOpenStep"} -> FormatOPENSTEP
      [] OTHER -> FormatNONE

\* parse(output) on what the conversion just completed has returned
ParseOutput ==
    /\ last.op \in ConvOps
    /\ last.outcome = "return"
    /\ \E n \in Fails :
          ParseInto(parse(Scarce(Machine(HeapOf(wasmModule)), n), wasmModule,
                          last.value, "parse"),
                    last.value, 0, last.tree, TargetOf(last.op))

\* The caller takes the completion and goes on
Continue ==
    /\ ~Idle
    /\ last' = NoCall
    /\ UNCHANGED <<wasmModule, created, pending, heaps, plists, env>>

Held == {s \in 1..MaxPlists : plists[s].wasm # 0}

Convert(s, op, prettify, j) ==
    /\ heaps' = Settle(plists[s].wasm, j.m)
    /\ last' = Done(op, s, 0, prettify, j,
                    TreeAt(Machine(heaps[plists[s].wasm]), plists[s].handle), 0,
                    NoValue)
    /\ UNCHANGED <<wasmModule, created, pending, plists, env>>

ToXML(s, clobber) ==
    /\ Idle /\ s \in Held
    /\ \E n \in Fails :
          Convert(s, "Plist.toXML", FALSE,
                  Plist_toXML(Scarce(Machine(heaps[plists[s].wasm]), n),
                              plists[s].handle, clobber))
ToBinary(s, clobber) ==
    /\ Idle /\ s \in Held
    /\ \E n \in Fails :
          Convert(s, "Plist.toBinary", FALSE,
                  Plist_toBinary(Scarce(Machine(heaps[plists[s].wasm]), n),
                                 plists[s].handle, clobber))
ToJSON(s, prettify, clobber) ==
    /\ Idle /\ s \in Held
    /\ \E n \in Fails :
          Convert(s, "Plist.toJSON", prettify,
                  Plist_toJSON(Scarce(Machine(heaps[plists[s].wasm]), n),
                               plists[s].handle, prettify, env.json, clobber))
ToOpenStep(s, prettify, clobber) ==
    /\ Idle /\ s \in Held
    /\ \E n \in Fails :
          Convert(s, "Plist.toOpenStep", prettify,
                  Plist_toOpenStep(Scarce(Machine(heaps[plists[s].wasm]), n),
                                   plists[s].handle, prettify, clobber))

Free(s) ==
    /\ Idle /\ s \in Held
    /\ LET f == Plist_free(Machine(heaps[plists[s].wasm]), plists[s].handle) IN
       /\ heaps' = Settle(plists[s].wasm, f.m)
       /\ plists' = [plists EXCEPT ![s].handle = f.ret]
       /\ last' = Done("Plist.free", s, 0, FALSE, Return(f.m), NoTree, 0, NoValue)
    /\ UNCHANGED <<wasmModule, created, pending, env>>

Version ==
    /\ Idle
    /\ LET j == version(Machine(HeapOf(wasmModule)), wasmModule) IN
       /\ heaps' = Settle(wasmModule, j.m)
       /\ last' = Done("version", 0, 0, FALSE, j, NoTree, 0, NoValue)
    /\ UNCHANGED <<wasmModule, created, pending, plists, env>>

\* The tree a one-step conversion of Corpus[i] works on
TreeOfInput(i) ==
    IF wasmModule = 0 \/ Corpus[i].js \notin {"string", "Uint8Array"} THEN NoTree
    ELSE plist_from_memory(Corpus[i].toks, "parse").tree

\* A one-step function makes a Plist of its own for the time of the call
OneStep(i, op, prettify, j) ==
    /\ FreeSlots # {}
    /\ heaps' = Settle(wasmModule, j.m)
    /\ last' = Done(op, 0, i, prettify, j, TreeOfInput(i), 0, Corpus[i])
    /\ UNCHANGED <<wasmModule, created, pending, plists, env>>

ConvXML(i, e, clobber) ==
    /\ Idle
    /\ \E n \in Fails :
          OneStep(i, "toXML", FALSE,
                  toXML(Scarce(Machine(HeapOf(wasmModule)), n), wasmModule,
                        Corpus[i], e, clobber))
ConvBinary(i, e, clobber) ==
    /\ Idle
    /\ \E n \in Fails :
          OneStep(i, "toBinary", FALSE,
                  toBinary(Scarce(Machine(HeapOf(wasmModule)), n), wasmModule,
                           Corpus[i], e, clobber))
ConvJSON(i, e, prettify, clobber) ==
    /\ Idle
    /\ \E n \in Fails :
          OneStep(i, "toJSON", prettify,
                  toJSON(Scarce(Machine(HeapOf(wasmModule)), n), wasmModule,
                         Corpus[i], prettify, e, env.json, clobber))
ConvOpenStep(i, e, prettify, clobber) ==
    /\ Idle
    /\ \E n \in Fails :
          OneStep(i, "toOpenStep", prettify,
                  toOpenStep(Scarce(Machine(HeapOf(wasmModule)), n), wasmModule,
                             Corpus[i], prettify, e, clobber))

Inputs == 1..Len(Corpus)
\* The inputs the caller hands to the one-step functions: a document of each
\* text format, one JSON and OpenStep cannot hold, the empty dictionary, the
\* binary sample, a zero-length string, an unclosed document, and a number
OneStepInputs == {1, 3, 4, 5, 8, 10, 11, 15, 18}

Next ==
    \/ InitCall
    \/ \E w \in 1..MaxModules : InitResume(w)
    \/ \E i \in Inputs : \E e \in EmptyAnswers(Corpus[i]) : Parse(i, e)
    \/ ParseOutput
    \/ Continue
    \/ \E s \in 1..MaxPlists, c \in BOOLEAN : ToXML(s, c)
    \/ \E s \in 1..MaxPlists, c \in BOOLEAN : ToBinary(s, c)
    \/ \E s \in 1..MaxPlists, p \in BOOLEAN, c \in BOOLEAN : ToJSON(s, p, c)
    \/ \E s \in 1..MaxPlists, p \in BOOLEAN, c \in BOOLEAN : ToOpenStep(s, p, c)
    \/ \E s \in 1..MaxPlists : Free(s)
    \/ Version
    \/ \E i \in OneStepInputs, c \in BOOLEAN :
          \E e \in EmptyAnswers(Corpus[i]) : ConvXML(i, e, c)
    \/ \E i \in OneStepInputs, c \in BOOLEAN :
          \E e \in EmptyAnswers(Corpus[i]) : ConvBinary(i, e, c)
    \/ \E i \in OneStepInputs, p \in BOOLEAN, c \in BOOLEAN :
          \E e \in EmptyAnswers(Corpus[i]) : ConvJSON(i, e, p, c)
    \/ \E i \in OneStepInputs, p \in BOOLEAN, c \in BOOLEAN :
          \E e \in EmptyAnswers(Corpus[i]) : ConvOpenStep(i, e, p, c)

Spec == Init /\ [][Next]_vars

\* A caller that starts an init() while another is still awaiting
InitRace == InitWith({TRUE}, {FALSE})
SpecRace == InitRace /\ [][Next]_vars

\* The same caller on a heap that can run out
InitOom == InitWith({FALSE}, {TRUE})
SpecOom == InitOom /\ [][Next]_vars

(***************************************************************************)
(* Properties.  Each is a predicate on the completion in `last` and on the *)
(* state the call has left.                                                *)
(***************************************************************************)
Methods == {"Plist.toXML", "Plist.toBinary", "Plist.toJSON", "Plist.toOpenStep"}
OneSteps == {"toXML", "toBinary", "toJSON", "toOpenStep"}
Codes(s) == {s[i] : i \in DOMAIN s}
Count(s, x) == Cardinality({i \in DOMAIN s : s[i] = x})
\* The tree now behind the Plist in slot s
TreeOf(s) == TreeAt(Machine(heaps[plists[s].wasm]), plists[s].handle)

\* C1: parse and every conversion are all-or-nothing.  Whenever the engine
\* reports a non-zero error code the call throws a PlistError with that
\* code, and returns no Plist and no output; a call returns only when every
\* code the engine reported is 0.
C1_AllOrNothing ==
    last.op \in ConvOps \cup {"parse"} =>
        /\ Codes(last.eng) \ {ErrSUCCESS} # {} =>
              /\ last.outcome = "PlistError"
              /\ last.code = last.eng[Len(last.eng)]
              /\ last.code # ErrSUCCESS
              /\ last.value = NoValue
              /\ last.op = "parse" => last.slot = 0
        /\ last.outcome = "return" => Codes(last.eng) \subseteq {ErrSUCCESS}
        /\ last.outcome = "return" /\ last.op \in ConvOps => last.value # NoValue
\* a conversion method has thrown the Format error the engine reported
C1_Witness ==
    /\ last.op \in Methods
    /\ last.outcome = "PlistError"
    /\ last.eng = <<ErrFORMAT>>
    /\ last.code = ErrFORMAT

\* The formats whose grammar accepts a document, each with its name
Grammars ==
    {<<FormatXML, "xml">>, <<FormatBINARY, "binary">>, <<FormatJSON, "json">>,
     <<FormatOPENSTEP, "openstep">>}
AcceptedBy(doc, f) ==
    CASE f = FormatXML -> plist_from_xml(doc).ok
      [] f = FormatJSON -> plist_from_json(doc).ok
      [] f = FormatOPENSTEP -> plist_from_openstep(doc).ok
      [] f = FormatBINARY -> /\ doc # <<>>
                             /\ Head(doc) = Tok("magic", "bplist")
                             /\ plist_from_bin(doc).error = ErrSUCCESS
Accepts(doc) == {g \in Grammars : AcceptedBy(doc, g[1])}
\* The format each input of the corpus was written in (0: in none)
WrittenIn ==
    <<FormatXML, FormatXML, FormatJSON, FormatOPENSTEP, FormatXML, FormatXML,
      FormatJSON, FormatJSON, FormatOPENSTEP, FormatBINARY,
      FormatNONE, FormatNONE, FormatNONE, FormatNONE, FormatNONE, FormatNONE,
      FormatNONE, FormatNONE>>
Parsed == last.op = "parse" /\ last.outcome = "return"

\* C2 (as amended): for every input parse accepts, the Plist's format is a
\* format whose grammar accepts the input, so the one format of an input
\* that only one grammar accepts, while an input that is both JSON and
\* OpenStep gives JSON or OPENSTEP; formatName is that format's name; the
\* format is never NONE and the name never "unknown".
C2_FormatAcceptsInput ==
    Parsed =>
        LET f == plists[last.slot].format IN
        /\ <<f, formatName(f)>> \in Accepts(last.given.toks)
        /\ f # FormatNONE
        /\ formatName(f) # "unknown"
\* parse has accepted an input that is both JSON and OpenStep
C2_Witness ==
    /\ Parsed
    /\ {a[1] : a \in Accepts(last.given.toks)} = {FormatJSON, FormatOPENSTEP}
    /\ plists[last.slot].format \in {FormatJSON, FormatOPENSTEP}
\* C2 as stated: the format is the one the input was written in, be it an
\* input of the corpus or the output of a conversion.
C2_FormatAsWritten ==
    Parsed =>
        plists[last.slot].format =
            IF last.input # 0 THEN WrittenIn[last.input] ELSE last.via

\* What a format cannot represent (design document 4.3 to 4.5): XML has no
\* element for Null, JSON no literal for Data and Date, OpenStep none for
\* Boolean, Date and Null
Unrepresentable(f) ==
    CASE f = FormatXML -> {"null"}
      [] f = FormatJSON -> {"data", "date"}
      [] f = FormatOPENSTEP -> {"boolean", "date", "null"}
      [] OTHER -> {}
Representable(tree, f) == Types(tree) \cap Unrepresentable(f) = {}
\* A conversion has completed on a parsed tree
Converted == last.op \in ConvOps /\ last.tree # NoTree
\* What JSON cannot take under the engine's convention
JsonRefuses == IF env.json = "error" THEN {"data", "date"} ELSE {}

\* C3 (as amended): for a parsed tree that contains a Boolean, toOpenStep
\* fails with PlistError code FORMAT; toXML, toJSON and toBinary on the same
\* Plist each succeed when the target can take every value type of the tree
\* (XML: all but Null; JSON: all but, under the engine's convention, Data
\* and Date; binary: all); for a tree without Boolean, Date and Null
\* toOpenStep succeeds.
C3_FormatErrors ==
    Converted =>
        LET f == TargetOf(last.op)
            types == Types(last.tree)
        IN  /\ f = FormatOPENSTEP /\ "boolean" \in types =>
                  last.outcome = "PlistError" /\ last.code = ErrFORMAT
            /\ f = FormatOPENSTEP /\ Representable(last.tree, f) =>
                  last.outcome = "return"
            /\ f = FormatXML /\ Representable(last.tree, f) => last.outcome = "return"
            /\ f = FormatJSON /\ types \cap JsonRefuses = {} => last.outcome = "return"
            /\ f = FormatBINARY => last.outcome = "return"
\* toOpenStep has failed with FORMAT on a tree that holds a Boolean
C3_Witness ==
    /\ Converted
    /\ last.op \in {"Plist.toOpenStep", "toOpenStep"}
    /\ "boolean" \in Types(last.tree)
    /\ last.outcome = "PlistError"
    /\ last.code = ErrFORMAT
\* C3 as stated: on a tree that contains a Boolean toOpenStep fails with
\* FORMAT while toXML, toJSON and toBinary succeed; on a tree OpenStep can
\* represent toOpenStep succeeds.
C3_OnlyOpenStepFails ==
    Converted =>
        /\ "boolean" \in Types(last.tree) =>
              IF TargetOf(last.op) = FormatOPENSTEP
              THEN last.outcome = "PlistError" /\ last.code = ErrFORMAT
              ELSE last.outcome = "return"
        /\ TargetOf(last.op) = FormatOPENSTEP
           /\ Representable(last.tree, FormatOPENSTEP) => last.outcome = "return"

\* The tree OpenStep narrows a tree to: numbers become text
RECURSIVE Narrow(_)
Narrow(n) ==
    IF n.t \in {"integer", "real"} THEN StrV(n.v)
    ELSE [n EXCEPT !.kids = [i \in DOMAIN n.kids |-> Narrow(n.kids[i])]]
\* parse has completed on the output of a conversion to a format that can
\* represent the tree
ParsedBack == last.op = "parse" /\ last.via # 0 /\ Representable(last.tree, last.via)

\* C4: round trip.  For formats A and B and an input in A whose value
\* types B can represent, parsing the input, converting to B and parsing
\* the output gives a tree equal to the one parsed from the input, up to
\* OpenStep's narrowing of numbers to text.
C4_RoundTrip ==
    ParsedBack =>
        /\ last.outcome = "return"
        /\ TreeOf(last.slot) =
              IF last.via = FormatOPENSTEP THEN Narrow(last.tree) ELSE last.tree

\* The same method call made again now
Again(clobber) ==
    LET m == Machine(heaps[last.plist.wasm])
        h == plists[last.slot].handle
    IN  CASE last.op = "Plist.toXML" -> Plist_toXML(m, h, clobber)
          [] last.op = "Plist.toBinary" -> Plist_toBinary(m, h, clobber)
          [] last.op = "Plist.toJSON" ->
                Plist_toJSON(m, h, last.prettify, env.json, clobber)
          [] last.op = "Plist.toOpenStep" ->
                Plist_toOpenStep(m, h, last.prettify, clobber)

\* C5: a conversion on an unfreed Plist, failed or not, leaves the Plist's
\* handle, format and tree as they were, and the same call made again
\* returns the same result.
C5_SameResultAgain ==
    last.op \in Methods /\ last.plist.handle # 0 =>
        /\ plists[last.slot] = last.plist
        /\ TreeOf(last.slot) = last.tree
        /\ \A c \in BOOLEAN :
              LET r == Again(c) IN
              /\ r.outcome = last.outcome
              /\ r.code = last.code
              /\ r.value = last.value

\* The calls init() gates
Gated == {"parse", "version"} \cup OneSteps

\* C6: until init() has completed, parse, version and the one-step
\* functions throw Error("Module not initialized. Call init() first.") and
\* make no call into the module; once it has completed they never throw
\* that error.
C6_InitGate ==
    last.op \in Gated =>
        /\ wasmModule = 0 =>
              /\ last.outcome = "Error"
              /\ last.calls = <<>>
              /\ \A w \in 1..MaxModules : heaps[w] = <<>>
        /\ wasmModule # 0 => last.outcome # "Error"
\* version() has thrown while an init() was still awaiting the module
C6_Witness ==
    /\ last.op = "version"
    /\ pending # {}
    /\ wasmModule = 0
    /\ last.outcome = "Error"

\* parse(data) followed by the method of the same name, for one answer of
\* the engine to a zero-length buffer and one behaviour of the allocator
Composed(e, clobber) ==
    LET p == parse(Machine(HeapOf(wasmModule)), wasmModule, last.given, e) IN
    IF p.outcome # "return" THEN p
    ELSE CASE last.op = "toXML" -> Plist_toXML(p.m, p.handle, clobber)
           [] last.op = "toBinary" -> Plist_toBinary(p.m, p.handle, clobber)
           [] last.op = "toJSON" ->
                 Plist_toJSON(p.m, p.handle, last.prettify, env.json, clobber)
           [] last.op = "toOpenStep" ->
                 Plist_toOpenStep(p.m, p.handle, last.prettify, clobber)
\* The handles the caller's Plists hold in module w
HeldIn(w) == {plists[s].handle : s \in {x \in 1..MaxPlists : plists[x].wasm = w}} \ {0}

\* C7: a one-step function returns or throws what parse(data) followed by
\* the method of the same name does, frees the handle it parsed exactly
\* once on every path, and leaves no handle of its own live.
C7_OneStep ==
    last.op \in OneSteps =>
        /\ \E e \in EmptyAnswers(last.given), c \in BOOLEAN :
              LET r == Composed(e, c) IN
              /\ r.outcome = last.outcome
              /\ r.code = last.code
              /\ r.value = last.value
        /\ Count(last.calls, "plist_free_handle") =
              IF last.eng # <<>> /\ last.eng[1] = ErrSUCCESS THEN 1 ELSE 0
        /\ wasmModule # 0 => DOMAIN heaps[wasmModule] = HeldIn(wasmModule)
\* a one-step conversion has thrown after its parse succeeded, and freed
C7_Witness ==
    /\ last.op \in OneSteps
    /\ last.eng = <<ErrSUCCESS, ErrFORMAT>>
    /\ last.outcome = "PlistError"
    /\ Count(last.calls, "plist_free_handle") = 1

\* C8: a successful toBinary output is a non-empty byte array that begins
\* with "bplist" and the version digits "00", and parsing it succeeds with
\* format BINARY.
C8_BinaryHeader ==
    /\ last.op \in {"Plist.toBinary", "toBinary"} /\ last.outcome = "return" =>
          /\ last.value.js = "Uint8Array"
          /\ Len(last.value.toks) >= 2
          /\ last.value.toks[1] = Tok("magic", "bplist")
          /\ last.value.toks[2] = Tok("version", "00")
    /\ last.op = "parse" /\ last.via = FormatBINARY =>
          /\ last.outcome = "return"
          /\ plists[last.slot].format = FormatBINARY

\* The value a dictionary holds under a key, and the token a JSON text
\* holds after "key":
Lookup(tree, key) ==
    IF tree.t = "dict" /\ \E i \in DOMAIN tree.keys : tree.keys[i] = key
    THEN tree.kids[CHOOSE i \in DOMAIN tree.keys : tree.keys[i] = key]
    ELSE NoTree
JsonMember(toks, key) ==
    LET s == SelectSeq(toks, LAMBDA t : t.k # "ws")
        at == {i \in 1..(Len(s) - 2) : s[i] = Q(key) /\ s[i + 1] = P(":")}
    IN  IF at = {} THEN Tok("none", "") ELSE s[(CHOOSE i \in at : TRUE) + 2]

\* C9: an OpenStep bareword that looks like a number (Count = 42) decodes
\* to the String "42" and goes to JSON as the string "42"; an XML
\* <integer>42</integer> and a JSON number without fraction or exponent
\* decode to the Integer 42 and go to JSON as the number 42.
C9_Coercion ==
    /\ Parsed /\ last.given.toks = SampleOpenStep =>
          Lookup(TreeOf(last.slot), "Count") = StrV("42")
    /\ Parsed /\ plists[last.slot].format = FormatOPENSTEP =>
          Types(TreeOf(last.slot)) \cap {"integer", "real"} = {}
    /\ Parsed /\ last.given.toks \in {SampleXml, SampleXmlCompat, SampleJson} =>
          Lookup(TreeOf(last.slot), "Count") = IntV("42")
    /\ last.op \in {"Plist.toJSON", "toJSON"} /\ last.outcome = "return" =>
          /\ Lookup(last.tree, "Count") = StrV("42") =>
                JsonMember(last.value.toks, "Count") = Q("42")
          /\ Lookup(last.tree, "Count") = IntV("42") =>
                JsonMember(last.value.toks, "Count") = B("42")
\* toJSON has written the String "42" of an OpenStep document as "42"
C9_Witness ==
    /\ last.op \in {"Plist.toJSON", "toJSON"}
    /\ last.outcome = "return"
    /\ Lookup(last.tree, "Count") = StrV("42")
    /\ JsonMember(last.value.toks, "Count") = Q("42")

\* parse or a one-step function has completed on empty or blank data
OnBlank ==
    /\ last.op \in {"parse"} \cup OneSteps
    /\ wasmModule # 0
    /\ last.given.js \in {"string", "Uint8Array"}
    /\ SkipWs(last.given.toks) = <<>>

ObjectsOf(doc) == SubSeq(doc, 3, Len(doc) - 1)
CountOf(doc) == doc[Len(doc)].refs[1]
\* The references object i holds (i counts from 0)
RefsOf(doc, i) ==
    {ObjectsOf(doc)[i + 1].refs[k] : k \in DOMAIN ObjectsOf(doc)[i + 1].refs}
\* Some object holds a reference at or past the object count
BadRef(doc) ==
    \E i \in 0..(CountOf(doc) - 1) : \E r \in RefsOf(doc, i) : r >= CountOf(doc)
\* The objects reached from the objects of S in at most n steps
RECURSIVE Reach(_, _, _)
Reach(doc, S, n) ==
    IF n = 0 THEN S
    ELSE Reach(doc,
               S \cup UNION {RefsOf(doc, i) \cap (0..(CountOf(doc) - 1)) : i \in S},
               n - 1)
\* Some object is reached from itself
Cyclic(doc) ==
    \E i \in 0..(CountOf(doc) - 1) :
        i \in Reach(doc, RefsOf(doc, i) \cap (0..(CountOf(doc) - 1)), CountOf(doc))
\* parse has completed on bytes with the binary magic and a trailer
OnBinary ==
    /\ last.op = "parse"
    /\ wasmModule # 0
    /\ last.given.js = "Uint8Array"
    /\ Len(last.given.toks) >= 3
    /\ last.given.toks[1] = Tok("magic", "bplist")
    /\ last.given.toks[Len(last.given.toks)].k = "trailer"

\* C11: binary decode never follows an invalid object reference.  A
\* reference at or past the object count fails the parse with PARSE, a
\* reference to an object that is being decoded (a cycle) fails it with
\* CIRCULAR_REF; in both cases the call ends, no Plist is returned and no
\* tree is left allocated.
C11_BadReferences ==
    OnBinary =>
        LET doc == last.given.toks IN
        /\ BadRef(doc) /\ ~Cyclic(doc) =>
              last.outcome = "PlistError" /\ last.code = ErrPARSE
        /\ Cyclic(doc) /\ ~BadRef(doc) =>
              last.outcome = "PlistError" /\ last.code = ErrCIRCULAR_REF
        /\ BadRef(doc) \/ Cyclic(doc) =>
              /\ last.outcome = "PlistError"
              /\ last.slot = 0
              /\ last.value = NoValue
              /\ DOMAIN heaps[wasmModule] = HeldIn(wasmModule)
\* parse has thrown CIRCULAR_REF on an array that holds itself
C11_Witness ==
    /\ OnBinary
    /\ Cyclic(last.given.toks)
    /\ last.outcome = "PlistError"
    /\ last.code = ErrCIRCULAR_REF

\* What the engine's encoder for a target format answers on a tree
EncoderOf(f, tree, prettify) ==
    CASE f = FormatXML -> plist_to_xml(tree)
      [] f = FormatBINARY -> plist_to_bin(tree)
      [] f = FormatJSON -> plist_to_json(tree, prettify, env.json)
      [] f = FormatOPENSTEP -> plist_to_openstep(tree, prettify)
\* The completion is the one the engine's answer d to this call's input gives
ReadsDecoded(d) ==
    IF d.error = ErrSUCCESS
    THEN last.outcome = "return" /\ plists[last.slot].format = d.format
    ELSE last.outcome = "PlistError" /\ last.code = d.error
ReadsEncoded(e) ==
    IF e.error = ErrSUCCESS
    THEN last.outcome = "return" /\ Len(last.value.toks) = Len(e.data)
    ELSE last.outcome = "PlistError" /\ last.code = e.error

NullAt ==
    IF \E k \in DOMAIN last.calls : last.calls[k] = "NULL"
    THEN CHOOSE k \in DOMAIN last.calls : last.calls[k] = "NULL"
    ELSE 0
Releases == {"result_free", "free_buffer", "plist_free_handle"}

\* C13: out-of-memory is propagated as an error.  When the allocation of
\* the input buffer, of the result record or of the copy of the binary
\* output fails, the call throws PlistError NO_MEM (-4), makes no call into
\* the module after the failure other than to release what it had
\* allocated, and leaves nothing of its own allocated.
C13_NoMemPropagated ==
    NullAt # 0 =>
        /\ last.outcome = "PlistError"
        /\ last.code = ErrNO_MEM
        /\ \A k \in (NullAt + 1)..Len(last.calls) : last.calls[k] \in Releases
        /\ \A w \in 1..MaxModules : DOMAIN heaps[w] = HeldIn(w)

\* The places in the call where a call of the given name was made
At(name) == {k \in DOMAIN last.calls : last.calls[k] = name}

\* C14: in every conversion the output bytes are read while the result's
\* data buffer is still allocated.  The read of HEAPU8 at dataPtr comes
\* before result_free, no read is of freed memory, and the string or
\* Uint8Array returned holds the bytes the engine has written.
C14_ReadBeforeFree ==
    last.op \in ConvOps /\ last.outcome = "return" =>
        /\ At("HEAPU8.read(freed)") = {}
        /\ \A r \in At("HEAPU8.read") :
              \E f \in At("result_free") :
                  r < f /\ \A g \in At("result_free") : g <= f
        /\ last.value.toks =
              EncoderOf(TargetOf(last.op), last.tree, last.prettify).data

\* C15: allocation balance.  In parse and in every conversion each
\* alloc_buffer is matched by one free_buffer and each result_alloc by one
\* result_free, whether the call returns, the engine reports an error or
\* the call throws; after every completed call the live allocations of a
\* module are the handles of the Plists returned and not yet freed, and a
\* parse that fails leaves no handle.
C15_Balance ==
    /\ Count(last.calls, "alloc_buffer") = Count(last.calls, "free_buffer")
    /\ Count(last.calls, "result_alloc") = Count(last.calls, "result_free")
    /\ \A w \in 1..MaxModules :
          /\ DOMAIN heaps[w] = HeldIn(w)
          /\ \A p \in DOMAIN heaps[w] : heaps[w][p].kind = "plist" /\ heaps[w][p].live
    /\ last.op = "parse" /\ last.outcome # "return" =>
          last.slot = 0 /\ Count(last.calls, "plist_free_handle") = 0
\* parse has thrown the engine's error after allocating a buffer and a
\* result record, and has released both
C15_Witness ==
    /\ last.op = "parse"
    /\ last.outcome = "PlistError"
    /\ Count(last.calls, "alloc_buffer") = 1
    /\ Count(last.calls, "free_buffer") = 1
    /\ Count(last.calls, "result_free") = 1

\* C16: Plist.free() is idempotent.  The first free() of a Plist calls
\* plist_free_handle once, on a handle that is still allocated, and sets
\* the handle to null; a later free() of the same Plist makes no call into
\* the module and changes nothing.  A handle a Plist holds has not been
\* freed, so no handle is freed twice.
C16_FreeOnce ==
    /\ last.op = "Plist.free" =>
          /\ last.outcome = "return"
          /\ plists[last.slot] = [last.plist EXCEPT !.handle = 0]
          /\ last.calls =
                IF last.plist.handle # 0 THEN <<"plist_free_handle">> ELSE <<>>
    /\ \A s \in 1..MaxPlists :
          plists[s].handle # 0 =>
              /\ plists[s].handle \in DOMAIN heaps[plists[s].wasm]
              /\ heaps[plists[s].wasm][plists[s].handle].kind = "plist"
    /\ Count(last.calls, "plist_free_handle") <= 1
\* free() has been called on a Plist that was already freed
C16_Witness ==
    /\ last.op = "Plist.free"
    /\ last.plist.wasm # 0
    /\ last.plist.handle = 0
    /\ last.calls = <<>>

\* The wrapper each method calls
WrapperOf(op) ==
    CASE op = "Plist.toXML" -> "plist_to_xml_wrapper"
      [] op = "Plist.toBinary" -> "plist_to_bin_wrapper"
      [] op = "Plist.toJSON" -> "plist_to_json_wrapper"
      [] op = "Plist.toOpenStep" -> "plist_to_openstep_wrapper"
\* A method has completed on a Plist that had been freed
OnFreed == last.op \in Methods /\ last.plist.wasm # 0 /\ last.plist.handle = 0

\* C17: after free() no conversion passes the freed pointer to the engine.
\* A toXML, toBinary, toJSON or toOpenStep on a freed Plist hands the
\* wrapper a null handle, the engine answers INVALID_ARG, and the call
\* throws PlistError INVALID_ARG (-1) after releasing its result record;
\* the Plist's format and formatName stay what parse had set.
C17_NullAfterFree ==
    /\ OnFreed =>
          /\ last.tree = NoTree
          /\ last.eng = <<ErrINVALID_ARG>>
          /\ last.outcome = "PlistError"
          /\ last.code = ErrINVALID_ARG
          /\ last.value = NoValue
          /\ last.calls = <<"result_alloc", WrapperOf(last.op), "result_get_error",
                            "result_free">>
          /\ plists[last.slot] = last.plist
          /\ DOMAIN heaps[last.plist.wasm] = HeldIn(last.plist.wasm)
    /\ \A s \in 1..MaxPlists :
          plists[s].wasm # 0 =>
              /\ plists[s].format \in {FormatXML, FormatBINARY, FormatJSON, FormatOPENSTEP}
              /\ formatName(plists[s].format) # "unknown"
    /\ last.op \in Methods \cup {"Plist.free"} =>
          plists[last.slot].format = last.plist.format
\* toBinary has thrown INVALID_ARG on a freed Plist
C17_Witness ==
    /\ OnFreed
    /\ last.op = "Plist.toBinary"
    /\ last.outcome = "PlistError"
    /\ last.code = ErrINVALID_ARG

\* C18: init() instantiates the module at most once.  For any number and
\* interleaving of init() calls, also of calls started before an earlier
\* one has resolved, createPlistModule is invoked once and wasmModule is
\* assigned once, so every Plist parse has returned refers to the module
\* instance that parse and version use now.
C18_InitOnce ==
    /\ created <= 1
    /\ wasmModule \in {0, 1}
    /\ \A s \in 1..MaxPlists : plists[s].wasm \in {0, wasmModule}
=============================================================================
